---- MODULE Spec2Model ----
(***************************************************************************)
(* A model of the moby tool: the YAML/label merge that synthesizes an OCI  *)
(* runtime spec, the override engine, the image-to-tar filter (ImageTar),  *)
(* the linuxkit build cache (ensureLinuxkitImage, writeKernelInitrd) and   *)
(* the output dispatcher (ValidateFormats, Formats).                       *)
(*                                                                         *)
(* Each subsystem has its own specification over the same variables:       *)
(*   SpecOCI       ConfigInspectToOCI                                      *)
(*   SpecOverride  ApplyOverride                                           *)
(*   SpecTar       ImageTar                                                *)
(*   Spec          Formats / ValidateFormats / ensureLinuxkitImage         *)
(*   SpecConcurrent  the same, two runs of the tool at once                *)
(*   SpecSchema    the configuration schema                                *)
(*   SpecBundle    ImageBundle                                             *)
(*   SpecLinuxKit  outputLinuxKit                                          *)
(*   SpecRun       dockerRunInput                                          *)
(* Strings of the program are TLA+ strings; a string the code indexes into *)
(* (a path prefix, an image reference) is held as its character sequence.  *)
(***************************************************************************)
EXTENDS Integers, Sequences, FiniteSets, TLC

VARIABLES
    ociYaml,    \* the Image declared in YAML, argument of ConfigInspectToOCI
    ociLabel,   \* the Image decoded from the org.mobyproject.config label
    ociOut,     \* what ConfigInspectToOCI returned (Nil before the call)
    ovConfig,   \* the Config handed to ApplyOverride
    ovOut,      \* the Config ApplyOverride returned (Nil before the call)
    tArgs,      \* ImageTar's arguments: prefix, pull, trust
    tPc,        \* where ImageTar stands
    tIdx,       \* index of the prefix directory or source entry being handled
    tSrc,       \* the entries of the exported container filesystem
    tw,         \* the calls made on the tarWriter: headers and their data
    tRet,       \* ImageTar's return value (Nil while it runs)
    tDocker,    \* the engine: pulls and creations attempted, live containers
    proc,       \* per process: where its Formats call stands and its locals
    cache,      \* the three files of the mkimage entry in MobyDir/linuxkit
    lastEnsure, \* the ensureLinuxkitImage call that ended last (Nil: none yet)
    runs,       \* Formats calls started so far
    sch,        \* a document handed to the schema, and the verdict on it
    bundle,     \* ImageBundle's arguments, where it stands, its return value
    lk,         \* outputLinuxKit: where it stands, and the directories of /tmp
    run         \* dockerRunInput: where it stands, the engine's log, its result

ociVars == <<ociYaml, ociLabel, ociOut>>
ovVars == <<ovConfig, ovOut>>
tarVars == <<tArgs, tPc, tIdx, tSrc, tw, tRet, tDocker>>
fmtVars == <<proc, cache, lastEnsure, runs>>
vars == <<ociYaml, ociLabel, ociOut, ovConfig, ovOut,
          tArgs, tPc, tIdx, tSrc, tw, tRet, tDocker,
          proc, cache, lastEnsure, runs, sch, bundle, lk, run>>

\* what each subsystem leaves alone
notOCI == <<ovVars, tarVars, fmtVars, sch, bundle, lk, run>>
notOverride == <<ociVars, tarVars, fmtVars, sch, bundle, lk, run>>
notTar == <<ociVars, ovVars, fmtVars, sch, bundle, lk, run>>
notFormats == <<ociVars, ovVars, tarVars, sch, bundle, lk, run>>
notSchema == <<ociVars, ovVars, tarVars, fmtVars, bundle, lk, run>>
notBundle == <<ociVars, ovVars, fmtVars, sch, lk, run>>
notLinuxKit == <<ociVars, ovVars, tarVars, fmtVars, sch, bundle, run>>
notRun == <<ociVars, ovVars, tarVars, fmtVars, sch, bundle, lk>>

\* an optional value: Nil, or Some(v) holding v
Nil == <<>>
Some(v) == <<v>>
Get(o) == o[1]

(***************************************************************************)
(* Bounds of the model.                                                    *)
(***************************************************************************)
MaxCaps == 2            \* longest capability list tried
MaxEntries == 1         \* longest init, onboot and services list tried
MaxRules == 2           \* longest list of override rules tried
MaxSrc == 2             \* most entries in an exported container filesystem
MaxFormats == 2         \* longest list of formats asked of Formats
MaxRuns == 2            \* Formats calls in one behaviour
MaxChunks == 2          \* writes it takes to fill one cache file

(***************************************************************************)
(* Helpers on sequences.                                                   *)
(***************************************************************************)
Range(s) == {s[i] : i \in 1..Len(s)}

SeqsUpTo(S, n) == UNION {[1..k -> S] : k \in 0..n}

(***************************************************************************)
(* OCI synthesizer: ConfigInspectToOCI(yaml, inspect).                     *)
(* An optional field of an Image is either Absent or a value, so that a    *)
(* declared empty list differs from no declaration.                        *)
(***************************************************************************)
Absent == Nil

\* the capability names the synthesizer recognizes
KnownCapabilities == {
    "CAP_CHOWN", "CAP_DAC_OVERRIDE", "CAP_DAC_READ_SEARCH", "CAP_FOWNER",
    "CAP_FSETID", "CAP_KILL", "CAP_SETGID", "CAP_SETUID", "CAP_SETPCAP",
    "CAP_LINUX_IMMUTABLE", "CAP_NET_BIND_SERVICE", "CAP_NET_BROADCAST",
    "CAP_NET_ADMIN", "CAP_NET_RAW", "CAP_IPC_LOCK", "CAP_IPC_OWNER",
    "CAP_SYS_MODULE", "CAP_SYS_RAWIO", "CAP_SYS_CHROOT", "CAP_SYS_PTRACE",
    "CAP_SYS_PACCT", "CAP_SYS_ADMIN", "CAP_SYS_BOOT", "CAP_SYS_NICE",
    "CAP_SYS_RESOURCE", "CAP_SYS_TIME", "CAP_SYS_TTY_CONFIG", "CAP_MKNOD",
    "CAP_LEASE", "CAP_AUDIT_WRITE", "CAP_AUDIT_CONTROL", "CAP_SETFCAP",
    "CAP_MAC_OVERRIDE", "CAP_MAC_ADMIN", "CAP_SYSLOG", "CAP_WAKE_ALARM",
    "CAP_BLOCK_SUSPEND", "CAP_AUDIT_READ" }

\* the capability strings the inputs are drawn from: two known, one not
CapStrings == {"CAP_SYS_ADMIN", "CAP_SYS_CHROOT", "NOT_A_CAP"}

\* the mergeable fields that are modelled
MergeFields == {"capabilities", "cwd", "env", "uid"}

\* the built-in default of each field, used when neither source declares it
FieldDefault ==
    [f \in MergeFields |->
        CASE f = "capabilities" -> <<>>
          [] f = "cwd"          -> "/"
          [] f = "env"          -> <<"PATH=/usr/local/sbin:/usr/local/bin:/usr/sbin:/usr/bin:/sbin:/bin">>
          [] f = "uid"          -> 0]

Optional(S) == {Absent} \cup {Some(v) : v \in S}

CapLists == SeqsUpTo(CapStrings, MaxCaps)

YamlImages ==
    [name : {"test"}, image : {"testimage"},
     capabilities : Optional(CapLists),
     cwd : Optional({"/yaml/directory"}),
     env : Optional({<<>>, <<"Y=1">>}),
     uid : Optional({0})]

LabelImages ==
    [name : {""}, image : {""},
     capabilities : Optional(CapLists),
     cwd : Optional({"/label/directory"}),
     env : Optional({<<"L=1">>}),
     uid : Optional({1000})]

\* a merge that lets the label's value win over the YAML value
MergedField_LabelWins(yaml, label, f) ==
    IF label[f] # Absent THEN Get(label[f])
    ELSE IF yaml[f] # Absent THEN Get(yaml[f])
    ELSE FieldDefault[f]

\* one field of the merge: YAML if present, else the label, else the default
MergedField(yaml, label, f) ==
    IF yaml[f] # Absent THEN Get(yaml[f])
    ELSE IF label[f] # Absent THEN Get(label[f])
    ELSE FieldDefault[f]

\* a validation that looks at the first capability of the list only
InvalidCaps_FirstOnly(caps) ==
    IF Len(caps) > 0 /\ caps[1] \notin KnownCapabilities THEN {caps[1]} ELSE {}

\* the capability strings of a list that are not recognized
InvalidCaps(caps) == {caps[i] : i \in {j \in 1..Len(caps) : caps[j] \notin KnownCapabilities}}

\* a synthesis that never consults the label fragment
Synthesize_IgnoreLabel(yaml, label) ==
    IF InvalidCaps(MergedField(yaml, [f \in MergeFields |-> Absent], "capabilities")) # {}
    THEN [err |-> TRUE, spec |-> Nil]
    ELSE [err |-> FALSE,
          spec |-> Some([Process |->
              [Cwd |-> MergedField(yaml, [f \in MergeFields |-> Absent], "cwd"),
               Env |-> MergedField(yaml, [f \in MergeFields |-> Absent], "env"),
               User |-> [UID |-> MergedField(yaml, [f \in MergeFields |-> Absent], "uid")],
               Capabilities |->
                   [k \in {"Bounding", "Effective", "Inheritable", "Permitted", "Ambient"} |->
                       MergedField(yaml, [f \in MergeFields |-> Absent], "capabilities")]]])]

\* the function under test: an error and no spec, or a spec and no error
Synthesize(yaml, label) ==
    LET caps == MergedField(yaml, label, "capabilities")
    IN  IF InvalidCaps(caps) # {}
        THEN [err |-> TRUE, spec |-> Nil]
        ELSE [err |-> FALSE,
              spec |-> Some([Process |->
                  [Cwd |-> MergedField(yaml, label, "cwd"),
                   Env |-> MergedField(yaml, label, "env"),
                   User |-> [UID |-> MergedField(yaml, label, "uid")],
                   Capabilities |->
                       [Bounding |-> caps, Effective |-> caps,
                        Inheritable |-> caps, Permitted |-> caps,
                        Ambient |-> caps]]])]

\* the value a synthesized spec holds for a mergeable field
SpecField(spec, f) ==
    CASE f = "capabilities" -> spec.Process.Capabilities.Bounding
      [] f = "cwd"          -> spec.Process.Cwd
      [] f = "env"          -> spec.Process.Env
      [] f = "uid"          -> spec.Process.User.UID

\* the other subsystems at rest, for the specifications that leave them alone
OverrideIdle == ovConfig = Nil /\ ovOut = Nil
OCIIdle == ociYaml = Nil /\ ociLabel = Nil /\ ociOut = Nil
TarIdle ==
    /\ tArgs = Nil /\ tPc = "idle" /\ tIdx = 0 /\ tSrc = Nil
    /\ tw = Nil /\ tRet = Nil /\ tDocker = Nil
FormatsIdle == proc = Nil /\ cache = Nil /\ lastEnsure = Nil /\ runs = 0
SchemaIdle == sch = Nil
BundleIdle == bundle = Nil
LinuxKitIdle == lk = Nil
RunIdle == run = Nil

InitOCI ==
    /\ ociYaml \in YamlImages
    /\ ociLabel \in LabelImages
    /\ ociOut = Nil
    /\ OverrideIdle
    /\ TarIdle
    /\ FormatsIdle
    /\ SchemaIdle /\ BundleIdle /\ LinuxKitIdle /\ RunIdle

ConfigInspectToOCI ==
    /\ ociOut = Nil
    /\ ociOut' = Some(Synthesize(ociYaml, ociLabel))
    /\ UNCHANGED <<ociYaml, ociLabel>>
    /\ UNCHANGED notOCI

NextOCI == ConfigInspectToOCI

SpecOCI == InitOCI /\ [][NextOCI]_vars

\* the merged capability list, worked out from the two sources alone
EffectiveCaps ==
    IF ociYaml.capabilities # Absent THEN Get(ociYaml.capabilities)
    ELSE IF ociLabel.capabilities # Absent THEN Get(ociLabel.capabilities)
    ELSE <<>>

\* the result of the call and, when it succeeded, the synthesized spec
OCIReturned == ociOut # Nil
OCISucceeded == ociOut # Nil /\ ~Get(ociOut).err
OCISpec == Get(Get(ociOut).spec)

\* C1: when synthesis succeeds, every mergeable field declared in both the
\* YAML image and the label fragment holds exactly the YAML value in the
\* synthesized spec: the label's value is dropped whole, never unioned.
C1_YamlWins ==
    OCISucceeded =>
        \A f \in MergeFields :
            (ociYaml[f] # Absent /\ ociLabel[f] # Absent) =>
                SpecField(OCISpec, f) = Get(ociYaml[f])

\* the test's case: YAML [CAP_SYS_ADMIN] over label [CAP_SYS_CHROOT]
C1_Witness ==
    /\ OCISucceeded
    /\ ociYaml.capabilities = Some(<<"CAP_SYS_ADMIN">>)
    /\ ociLabel.capabilities = Some(<<"CAP_SYS_CHROOT">>)
    /\ OCISpec.Process.Capabilities.Bounding = <<"CAP_SYS_ADMIN">>

\* C2: when synthesis succeeds, a mergeable field the YAML image leaves
\* absent takes the label fragment's value if the label declares it, and
\* the built-in default only if neither source declares it.
C2_LabelFallback ==
    OCISucceeded =>
        \A f \in MergeFields :
            /\ (ociYaml[f] = Absent /\ ociLabel[f] # Absent) =>
                    SpecField(OCISpec, f) = Get(ociLabel[f])
            /\ (ociYaml[f] = Absent /\ ociLabel[f] = Absent) =>
                    SpecField(OCISpec, f) = FieldDefault[f]
            /\ (ociYaml[f] # Absent \/ ociLabel[f] # Absent) =>
                    Some(SpecField(OCISpec, f)) \in {ociYaml[f], ociLabel[f]}

\* the test's case: cwd absent in YAML, /label/directory in the label
C2_Witness ==
    /\ OCISucceeded
    /\ ociYaml.cwd = Absent
    /\ ociLabel.cwd = Some("/label/directory")
    /\ OCISpec.Process.Cwd = "/label/directory"

\* C3: synthesis returns an error and no spec whenever the effective
\* capability list, from the YAML image or from the label, holds a string
\* outside the recognized set; every capability string of a synthesized
\* spec is in the recognized set.
C3_InvalidCapFails ==
    OCIReturned =>
        /\ (\E i \in 1..Len(EffectiveCaps) : EffectiveCaps[i] \notin KnownCapabilities)
                => (Get(ociOut).err /\ Get(ociOut).spec = Nil)
        /\ OCISucceeded =>
                \A k \in DOMAIN OCISpec.Process.Capabilities :
                    Range(OCISpec.Process.Capabilities[k]) \subseteq KnownCapabilities

\* the test's case: the label alone supplies NOT_A_CAP, behind a known name
C3_Witness ==
    /\ OCIReturned
    /\ Get(ociOut).err
    /\ Get(ociOut).spec = Nil
    /\ ociYaml.capabilities = Absent
    /\ ociLabel.capabilities = Some(<<"CAP_SYS_ADMIN", "NOT_A_CAP">>)

(***************************************************************************)
(* Override engine: ApplyOverride(config).                                 *)
(* An image reference is the sequence of its parts and separators, e.g.    *)
(* foo/bar:foo is <<"foo", "/", "bar", ":", "foo">>.                       *)
(***************************************************************************)
FirstIndex(s, ch) ==
    LET hits == {i \in 1..Len(s) : s[i] = ch}
    IN  IF hits = {} THEN 0 ELSE CHOOSE i \in hits : \A j \in hits : i <= j

LastIndex(s, ch) ==
    LET hits == {i \in 1..Len(s) : s[i] = ch}
    IN  IF hits = {} THEN 0 ELSE CHOOSE i \in hits : \A j \in hits : i >= j

\* the reference without its @digest
StripDigest(ref) ==
    LET at == FirstIndex(ref, "@")
    IN  IF at = 0 THEN ref ELSE SubSeq(ref, 1, at - 1)

\* a repository parse that forgets the digest and cuts at the last colon
Repository_KeepDigest(ref) ==
    IF LastIndex(ref, ":") > LastIndex(ref, "/")
    THEN SubSeq(ref, 1, LastIndex(ref, ":") - 1) ELSE ref

\* the repository component: no digest, and no tag (a colon after the last
\* slash; a colon before it belongs to a registry port)
Repository(ref) ==
    LET named == StripDigest(ref)
        colon == LastIndex(named, ":")
        slash == LastIndex(named, "/")
    IN  IF colon > slash THEN SubSeq(named, 1, colon - 1) ELSE named

\* one field under the rules: the first rule whose source is the field's
\* repository replaces the whole field; later rules are not applied
OverrideRef(rules, ref) ==
    LET hits == {i \in 1..Len(rules) : rules[i].source = Repository(ref)}
    IN  IF hits = {} THEN ref
        ELSE rules[CHOOSE i \in hits : \A j \in hits : i <= j].substitute

OverrideImages(rules, images) ==
    [i \in 1..Len(images) |->
        [images[i] EXCEPT !.image = OverrideRef(rules, images[i].image)]]

ApplyOverride(config) ==
    [config EXCEPT
        !.kernel.image = OverrideRef(config.overrides, config.kernel.image),
        !.init = [i \in 1..Len(config.init) |->
                     OverrideRef(config.overrides, config.init[i])],
        !.onboot = OverrideImages(config.overrides, config.onboot),
        !.services = OverrideImages(config.overrides, config.services)]

FooBar == <<"foo", "/", "bar">>
RegFooBar == <<"reg", ":", "5000", "/", "foo", "/", "bar">>

KernelRefs ==
    { FooBar \o <<":", "foo">>,
      FooBar \o <<"@", "sha256", ":", "0a1b">>,
      <<"foo", "/", "baz", ":", "foo">> }

EntryRefs ==
    { FooBar \o <<":", "foo">>,
      RegFooBar \o <<":", "foo">> }

OverrideRules ==
    [source : {FooBar, RegFooBar},
     substitute : {FooBar \o <<":", "quux">>, <<"foo", "/", "baz", ":", "new">>}]

Configs ==
    [kernel : [image : KernelRefs, cmdline : {"console=ttyS0"}],
     init : SeqsUpTo(EntryRefs, MaxEntries),
     onboot : SeqsUpTo([name : {"foo"}, image : EntryRefs], MaxEntries),
     services : SeqsUpTo([name : {"svc"}, image : EntryRefs], MaxEntries),
     overrides : SeqsUpTo(OverrideRules, MaxRules)]

InitOverride ==
    /\ ovConfig \in Configs
    /\ ovOut = Nil
    /\ OCIIdle
    /\ TarIdle
    /\ FormatsIdle
    /\ SchemaIdle /\ BundleIdle /\ LinuxKitIdle /\ RunIdle

ApplyOverrideCall ==
    /\ ovOut = Nil
    /\ ovOut' = Some(ApplyOverride(ovConfig))
    /\ UNCHANGED ovConfig
    /\ UNCHANGED notOverride

NextOverride == ApplyOverrideCall

SpecOverride == InitOverride /\ [][NextOverride]_vars

\* the image-reference fields of a config, in one sequence
RefFields(config) ==
    <<config.kernel.image>> \o config.init
        \o [i \in 1..Len(config.onboot) |-> config.onboot[i].image]
        \o [i \in 1..Len(config.services) |-> config.services[i].image]

\* the reference with the tag and digest cut off by hand
Untagged(ref) ==
    CHOOSE r \in {FooBar, RegFooBar, <<"foo", "/", "baz">>} :
        Len(r) <= Len(ref) /\ SubSeq(ref, 1, Len(r)) = r
            /\ (Len(ref) > Len(r) => ref[Len(r) + 1] \in {":", "@"})

\* C4: after ApplyOverride every image-reference field (kernel image, init
\* entries, onboot and service images) whose repository is the source of a
\* rule holds the substitute of the first such rule in full, whatever tag
\* or digest it carried; a field whose repository matches no rule, and
\* everything that is not an image reference, is unchanged.
C4_OverrideByRepository ==
    ovOut # Nil =>
        LET old == RefFields(ovConfig)
            new == RefFields(Get(ovOut))
            rules == ovConfig.overrides
        IN  /\ Len(new) = Len(old)
            /\ \A k \in 1..Len(old) :
                   LET hits == {i \in 1..Len(rules) : rules[i].source = Untagged(old[k])}
                   IN  IF hits = {} THEN new[k] = old[k]
                       ELSE \E i \in hits :
                                /\ \A j \in hits : i <= j
                                /\ new[k] = rules[i].substitute
            /\ Get(ovOut).overrides = ovConfig.overrides
            /\ Get(ovOut).kernel.cmdline = ovConfig.kernel.cmdline
            /\ \A i \in 1..Len(ovConfig.onboot) :
                   Get(ovOut).onboot[i].name = ovConfig.onboot[i].name
            /\ \A i \in 1..Len(ovConfig.services) :
                   Get(ovOut).services[i].name = ovConfig.services[i].name

\* the test's case: foo/bar:foo in kernel, init and onboot, one rule
\* foo/bar -> foo/bar:quux, and all three fields become foo/bar:quux
C4_Witness ==
    /\ ovOut # Nil
    /\ ovConfig.kernel.image = FooBar \o <<":", "foo">>
    /\ ovConfig.init = <<FooBar \o <<":", "foo">>>>
    /\ Len(ovConfig.onboot) = 1
    /\ ovConfig.onboot[1].image = FooBar \o <<":", "foo">>
    /\ ovConfig.overrides = <<[source |-> FooBar, substitute |-> FooBar \o <<":", "quux">>]>>
    /\ Get(ovOut).kernel.image = FooBar \o <<":", "quux">>
    /\ Get(ovOut).init[1] = FooBar \o <<":", "quux">>
    /\ Get(ovOut).onboot[1].image = FooBar \o <<":", "quux">>

(***************************************************************************)
(* Filesystem assembler: tarPrefix and ImageTar.                           *)
(* The prefix is the sequence of its characters; entry names and contents  *)
(* are strings.  The tarWriter is an interface: tw records the headers it  *)
(* was given and the data written after each, and any call on it may fail. *)
(***************************************************************************)
RECURSIVE Str(_)
\* the string a character sequence spells
Str(chars) == IF chars = <<>> THEN "" ELSE Head(chars) \o Str(Tail(chars))

RECURSIVE Split(_)
\* strings.Split(path, "/")
Split(path) ==
    LET i == FirstIndex(path, "/")
    IN  IF i = 0 THEN <<path>>
        ELSE <<SubSeq(path, 1, i - 1)>> \o Split(SubSeq(path, i + 1, Len(path)))

exclude == {".dockerenv", "Dockerfile", "dev/console", "dev/pts", "dev/shm", "etc/hostname"}

replace ==
    [n \in {"etc/hosts", "etc/resolv.conf"} |->
        IF n = "etc/hosts"
        THEN "127.0.0.1       localhost\n::1     localhost ip6-localhost ip6-loopback\nfe00::0 ip6-localnet\nff00::0 ip6-mcastprefix\nff02::1 ip6-allnodes\nff02::2 ip6-allrouters\n"
        ELSE "nameserver 8.8.8.8\nnameserver 8.8.4.4\nnameserver 2001:4860:4860::8888\nnameserver 2001:4860:4860::8844\n"]

\* replace[name] of a Go map: the empty string for a missing key
ReplaceOf(name) == IF name \in DOMAIN replace THEN replace[name] ELSE ""

\* a filter that forgets the exclusion set
Classify_NoExclude(name) ==
    IF ReplaceOf(name) # "" THEN "replace" ELSE "copy"

\* a filter that forgets the replacement set
Classify_NoReplace(name) ==
    IF name \in exclude THEN "exclude" ELSE "copy"

\* the branch ImageTar's loop takes for a source entry
Classify(name) ==
    IF name \in exclude THEN "exclude"
    ELSE IF ReplaceOf(name) # "" THEN "replace"
    ELSE "copy"

\* what tarPrefix does with a path: nothing, an error, a runtime failure
\* (index out of range on the empty string), or the directories to write
TarPrefixOutcome(path) ==
    IF path = <<>> THEN "nil"
    ELSE IF path[Len(path)] # "/" THEN "path does not end with /"
    ELSE IF Len(path) = 1 THEN "panic"
    ELSE IF path[1] = "/" THEN "path should be relative"
    ELSE "dirs"

RECURSIVE JoinSlash(_)
\* the components joined by "/", as the loop's mkdir accumulates them
JoinSlash(comps) ==
    IF Len(comps) = 1 THEN Str(comps[1])
    ELSE JoinSlash(SubSeq(comps, 1, Len(comps) - 1)) \o "/" \o Str(comps[Len(comps)])

\* the names of the directory headers tarPrefix writes, in order
TarPrefixDirs(path) ==
    LET comps == Split(SubSeq(path, 1, Len(path) - 1))
    IN  [k \in 1..Len(comps) |-> JoinSlash(SubSeq(comps, 1, k))]

DirHeader(name) == [Name |-> name, Typeflag |-> "5", Mode |-> 493, Size |-> 0]

\* the prefixes tried: none, one and two directories, no trailing slash,
\* the bare slash, an absolute path
Prefixes ==
    { <<>>, <<"p", "/">>, <<"a", "/", "b", "/">>, <<"p">>, <<"/">>, <<"/", "p", "/">> }

\* the entries an exported filesystem is made of: every excluded and every
\* replaced path as a regular file with content of its own, a file and a
\* directory outside both sets, an excluded path as a directory, and a
\* replaced path as a symbolic link
SrcEntries ==
    { [hdr |-> [Name |-> n, Typeflag |-> "0", Mode |-> 420, Size |-> Len("secret")],
       data |-> "secret"] : n \in exclude \cup DOMAIN replace \cup {"bin/sh"} }
    \cup
    { [hdr |-> [Name |-> n, Typeflag |-> "5", Mode |-> 493, Size |-> 0],
       data |-> ""] : n \in {"dev/shm", "dev/pts/"} }
    \cup
    { [hdr |-> [Name |-> "etc/resolv.conf", Typeflag |-> "2", Mode |-> 511, Size |-> 0],
       data |-> ""] }

SrcTars == SeqsUpTo(SrcEntries, MaxSrc)

\* ImageTar is entered with an empty tarWriter and an engine that holds
\* no container
TarStart ==
    /\ tPc = "start"
    /\ tIdx = 0
    /\ tSrc = <<>>
    /\ tw = <<>>
    /\ tRet = Nil
    /\ tDocker = [pulls |-> 0, creates |-> 0, live |-> {}, log |-> <<>>]

InitTar ==
    /\ tArgs \in [prefix : Prefixes, pull : BOOLEAN, trust : BOOLEAN]
    /\ TarStart
    /\ OCIIdle
    /\ OverrideIdle
    /\ FormatsIdle
    /\ SchemaIdle /\ BundleIdle /\ LinuxKitIdle /\ RunIdle

\* ImageTar returns err ("nil" for a nil error)
TarReturn(err) ==
    /\ tPc' = "done"
    /\ tRet' = Some(err)

\* where ImageTar goes once the prefix directories are written
AfterPrefix == IF tArgs.pull \/ tArgs.trust THEN "pull" ELSE "create"

\* WriteHeader on the tarWriter: the header is recorded, or the call fails
WriteHeader(hdr, src) ==
    tw' = Append(tw, [hdr |-> hdr, data |-> "", whole |-> FALSE, src |-> src])

\* lines 76-85: the check of the prefix, and tarPrefix up to its loop
ImageTarBegin ==
    /\ tPc = "start"
    /\ LET prefix == tArgs.prefix
       IN  IF prefix # <<>> /\ prefix[Len(prefix)] # "/"
           THEN TarReturn("prefix does not end with /") /\ UNCHANGED tIdx
           ELSE CASE TarPrefixOutcome(prefix) = "nil" ->
                        tPc' = AfterPrefix /\ UNCHANGED <<tIdx, tRet>>
                  [] TarPrefixOutcome(prefix) = "dirs" ->
                        tPc' = "prefix" /\ tIdx' = 1 /\ UNCHANGED tRet
                  [] TarPrefixOutcome(prefix) = "panic" ->
                        tPc' = "panic" /\ UNCHANGED <<tIdx, tRet>>
                  [] OTHER ->
                        TarReturn(TarPrefixOutcome(prefix)) /\ UNCHANGED tIdx
    /\ UNCHANGED <<tArgs, tSrc, tw, tDocker>>
    /\ UNCHANGED notTar

\* lines 60-72: one round of tarPrefix's loop
TarPrefixHeader ==
    /\ tPc = "prefix"
    /\ LET dirs == TarPrefixDirs(tArgs.prefix)
       IN  \/ /\ WriteHeader(DirHeader(dirs[tIdx]), 0)
              /\ tIdx' = tIdx + 1
              /\ tPc' = IF tIdx = Len(dirs) THEN AfterPrefix ELSE "prefix"
              /\ UNCHANGED tRet
           \/ /\ TarReturn("write error")
              /\ UNCHANGED <<tIdx, tw>>
    /\ UNCHANGED <<tArgs, tSrc, tDocker>>
    /\ UNCHANGED notTar

\* the engine after a dockerPull that ended with outcome
Pulled(outcome) ==
    [tDocker EXCEPT !.pulls = @ + 1, !.log = Append(@, "pull:" \o outcome)]

\* the engine after a dockerCreate that ended with outcome; a creation
\* that went through leaves a container behind
Created(outcome) ==
    [tDocker EXCEPT !.creates = @ + 1,
                    !.live = IF outcome = "ok" THEN @ \cup {tDocker.creates + 1} ELSE @,
                    !.log = Append(@, "create:" \o outcome)]

\* lines 87-92: the pull asked for by the caller
DockerPull ==
    /\ tPc = "pull"
    /\ \/ tDocker' = Pulled("ok") /\ tPc' = "create" /\ UNCHANGED tRet
       \/ tDocker' = Pulled("error") /\ TarReturn("Could not pull image")
    /\ UNCHANGED <<tArgs, tIdx, tSrc, tw>>
    /\ UNCHANGED notTar

\* lines 93-108: the first dockerCreate and the branch on its error
DockerCreate ==
    /\ tPc = "create"
    /\ \/ /\ tDocker' = Created("ok")
          /\ tPc' = "export"
          /\ UNCHANGED tRet
       \/ /\ tDocker' = Created("No such image")
          /\ tPc' = "pull_retry"
          /\ UNCHANGED tRet
       \/ /\ tDocker' = Created("error")
          /\ TarReturn("Failed to create docker image")
    /\ UNCHANGED <<tArgs, tIdx, tSrc, tw>>
    /\ UNCHANGED notTar

\* lines 97-100: the pull after "No such image"
DockerPullRetry ==
    /\ tPc = "pull_retry"
    /\ \/ tDocker' = Pulled("ok") /\ tPc' = "create_retry" /\ UNCHANGED tRet
       \/ tDocker' = Pulled("error") /\ TarReturn("Could not pull image")
    /\ UNCHANGED <<tArgs, tIdx, tSrc, tw>>
    /\ UNCHANGED notTar

\* a second dockerCreate that goes back to pulling when the image is
\* still not found
DockerCreateRetry_Again ==
    /\ tPc = "create_retry"
    /\ \/ /\ tDocker' = Created("ok")
          /\ tPc' = "export"
          /\ UNCHANGED tRet
       \/ /\ tDocker' = Created("No such image")
          /\ tPc' = IF tDocker.creates < 3 THEN "pull_retry" ELSE "done"
          /\ tRet' = IF tDocker.creates < 3 THEN tRet ELSE Some("Failed to docker create image")
       \/ /\ tDocker' = Created("error")
          /\ TarReturn("Failed to docker create image")
    /\ UNCHANGED <<tArgs, tIdx, tSrc, tw>>
    /\ UNCHANGED notTar

\* lines 101-104: the second dockerCreate; whatever its error, it is final
DockerCreateRetry ==
    /\ tPc = "create_retry"
    /\ \/ /\ tDocker' = Created("ok")
          /\ tPc' = "export"
          /\ UNCHANGED tRet
       \/ /\ tDocker' = Created("No such image")
          /\ TarReturn("Failed to docker create image")
       \/ /\ tDocker' = Created("error")
          /\ TarReturn("Failed to docker create image")
    /\ UNCHANGED <<tArgs, tIdx, tSrc, tw>>
    /\ UNCHANGED notTar

\* lines 109-112: dockerExport hands back the container's filesystem
DockerExport ==
    /\ tPc = "export"
    /\ \/ /\ tSrc' \in SrcTars
          /\ tPc' = "rm"
          /\ UNCHANGED tRet
       \/ /\ TarReturn("Failed to docker export container")
          /\ UNCHANGED tSrc
    /\ UNCHANGED <<tArgs, tIdx, tw, tDocker>>
    /\ UNCHANGED notTar

\* lines 113-116: dockerRm of the container just exported
DockerRm ==
    /\ tPc = "rm"
    /\ \/ /\ tDocker' = [tDocker EXCEPT !.live = @ \ {tDocker.creates}]
          /\ tPc' = "next"
          /\ tIdx' = 1
          /\ UNCHANGED tRet
       \/ /\ TarReturn("Failed to docker rm container")
          /\ UNCHANGED <<tIdx, tDocker>>
    /\ UNCHANGED <<tArgs, tSrc, tw>>
    /\ UNCHANGED notTar

\* lines 123-136: tr.Next(), and the whole branch of an excluded entry
TarNext ==
    /\ tPc = "next"
    /\ IF tIdx > Len(tSrc)
       THEN TarReturn("nil") /\ UNCHANGED tIdx
       ELSE \/ TarReturn("read error") /\ UNCHANGED tIdx
            \/ /\ Classify(tSrc[tIdx].hdr.Name) = "exclude"
               /\ \/ tIdx' = tIdx + 1 /\ UNCHANGED <<tPc, tRet>>
                  \/ TarReturn("read error") /\ UNCHANGED tIdx
            \/ /\ Classify(tSrc[tIdx].hdr.Name) # "exclude"
               /\ tPc' = "hdr"
               /\ UNCHANGED <<tIdx, tRet>>
    /\ UNCHANGED <<tArgs, tSrc, tw, tDocker>>
    /\ UNCHANGED notTar

\* a header that keeps the name the entry had in the source
OutHeader_NoPrefix(k) ==
    LET hdr == tSrc[k].hdr
    IN  IF Classify(hdr.Name) = "replace"
        THEN [hdr EXCEPT !.Size = Len(ReplaceOf(hdr.Name))]
        ELSE hdr

\* the header ImageTar writes for source entry number k
OutHeader(k) ==
    LET hdr == tSrc[k].hdr
        name == Str(tArgs.prefix) \o hdr.Name
    IN  IF Classify(hdr.Name) = "replace"
        THEN [hdr EXCEPT !.Size = Len(ReplaceOf(hdr.Name)), !.Name = name]
        ELSE [hdr EXCEPT !.Name = name]

\* the bytes ImageTar copies to the tarWriter for source entry number k
OutData(k) ==
    IF Classify(tSrc[k].hdr.Name) = "replace"
    THEN ReplaceOf(tSrc[k].hdr.Name)
    ELSE tSrc[k].data

\* lines 138-144 and 155-159: the header of a replaced or copied entry
TarWriteHeader ==
    /\ tPc = "hdr"
    /\ \/ /\ WriteHeader(OutHeader(tIdx), tIdx)
          /\ tPc' = "copy"
          /\ UNCHANGED tRet
       \/ /\ TarReturn("write error")
          /\ UNCHANGED tw
    /\ UNCHANGED <<tArgs, tIdx, tSrc, tDocker>>
    /\ UNCHANGED notTar

\* lines 145-153 and 160-163: the data of a replaced or copied entry; a
\* copy that fails has written nothing, or a leading part of the data
\* (data is what the copy was reading from, whole says all of it went out)
TarCopy ==
    /\ tPc = "copy"
    /\ \/ /\ tw' = [tw EXCEPT ![Len(tw)].data = OutData(tIdx), ![Len(tw)].whole = TRUE]
          /\ \/ tIdx' = tIdx + 1 /\ tPc' = "next" /\ UNCHANGED tRet
             \/ /\ Classify(tSrc[tIdx].hdr.Name) = "replace"
                /\ TarReturn("read error")       \* draining the source entry
                /\ UNCHANGED tIdx
       \/ /\ TarReturn("write error")
          /\ \/ UNCHANGED tw
             \/ OutData(tIdx) # "" /\ tw' = [tw EXCEPT ![Len(tw)].data = OutData(tIdx)]
          /\ UNCHANGED tIdx
    /\ UNCHANGED <<tArgs, tSrc, tDocker>>
    /\ UNCHANGED notTar

NextTar ==
    \/ ImageTarBegin
    \/ TarPrefixHeader
    \/ DockerPull
    \/ DockerCreate
    \/ DockerPullRetry
    \/ DockerCreateRetry
    \/ DockerExport
    \/ DockerRm
    \/ TarNext
    \/ TarWriteHeader
    \/ TarCopy

SpecTar == InitTar /\ [][NextTar]_vars

\* the run of ImageTar is over and it returned nil
TarSucceeded == tPc = "done" /\ tRet = Some("nil")

\* the entries of tw that ImageTar wrote for source entry number k
Outputs(k) == {i \in 1..Len(tw) : tw[i].src = k}

\* C5: at no point of any run does the output archive hold a header, or
\* bytes, written for a source entry whose path is in the exclusion set,
\* whatever the exported content and the prefix; when ImageTar returns nil
\* it has read past every such entry.
C5_ExcludedNeverWritten ==
    /\ \A k \in 1..Len(tSrc) :
          tSrc[k].hdr.Name \in exclude => Outputs(k) = {}
    /\ \A i \in 1..Len(tw) :
          tw[i].src # 0 => tSrc[tw[i].src].hdr.Name \notin exclude
    /\ TarSucceeded => tIdx = Len(tSrc) + 1

\* a finished run under a prefix whose source held dev/console, with
\* content, ahead of a file that was copied
C5_Witness ==
    /\ TarSucceeded
    /\ tArgs.prefix = <<"p", "/">>
    /\ Len(tSrc) = 2
    /\ tSrc[1].hdr.Name = "dev/console" /\ tSrc[1].data = "secret"
    /\ tSrc[2].hdr.Name = "bin/sh"
    /\ Len(tw) = 2
    /\ tw[2].hdr.Name = "p/bin/sh" /\ tw[2].data = "secret" /\ tw[2].whole

\* C6: whatever ImageTar writes for a source entry whose path is in the
\* replacement set is named prefix+path, carries the length of the fixed
\* replacement as its size and nothing but the fixed replacement as its
\* data, never the source entry's bytes, whatever the source entry's size,
\* type or content; and when ImageTar returns nil it has written exactly
\* one such entry, with the whole replacement, for each of them.
C6_ReplacedContent ==
    \A k \in 1..Len(tSrc) :
        tSrc[k].hdr.Name \in DOMAIN replace =>
            /\ \A i \in Outputs(k) :
                  /\ tw[i].hdr.Name = Str(tArgs.prefix) \o tSrc[k].hdr.Name
                  /\ tw[i].hdr.Size = Len(replace[tSrc[k].hdr.Name])
                  /\ tw[i].data \in {"", replace[tSrc[k].hdr.Name]}
                  /\ tSrc[k].data # "" => tw[i].data # tSrc[k].data
            /\ TarSucceeded =>
                  /\ Cardinality(Outputs(k)) = 1
                  /\ \A i \in Outputs(k) :
                        tw[i].data = replace[tSrc[k].hdr.Name] /\ tw[i].whole

\* a finished run under a prefix whose source held etc/hosts with content of
\* its own and etc/resolv.conf as a symbolic link
C6_Witness ==
    /\ TarSucceeded
    /\ tArgs.prefix = <<"a", "/", "b", "/">>
    /\ Len(tSrc) = 2
    /\ tSrc[1].hdr.Name = "etc/hosts" /\ tSrc[1].data = "secret"
    /\ tSrc[2].hdr.Name = "etc/resolv.conf" /\ tSrc[2].hdr.Typeflag = "2"
    /\ Len(tw) = 4
    /\ tw[3].hdr.Name = "a/b/etc/hosts"
    /\ tw[3].hdr.Size = 160
    /\ tw[3].data = replace["etc/hosts"] /\ tw[3].whole
    /\ tw[4].hdr.Name = "a/b/etc/resolv.conf"
    /\ tw[4].data = replace["etc/resolv.conf"] /\ tw[4].whole

\* s is a leading part of t
IsPrefix(s, t) == Len(s) <= Len(t) /\ s = SubSeq(t, 1, Len(s))

\* the outcomes a dockerCreate can have
CreateOutcomes == {"create:ok", "create:No such image", "create:error"}

\* the positions of the engine's log that are container creations
CreateCalls == {i \in 1..Len(tDocker.log) : tDocker.log[i] \in CreateOutcomes}

\* the engine's log from the first container creation on
SinceFirstCreate ==
    IF CreateCalls = {} THEN <<>>
    ELSE SubSeq(tDocker.log, CHOOSE i \in CreateCalls : \A j \in CreateCalls : i <= j,
                Len(tDocker.log))

\* the calls on the engine, from the first creation on, that the retry
\* policy allows a whole run to make
RetryRuns ==
    { <<"create:ok">>,
      <<"create:error">>,
      <<"create:No such image", "pull:error">>,
      <<"create:No such image", "pull:ok", "create:ok">>,
      <<"create:No such image", "pull:ok", "create:No such image">>,
      <<"create:No such image", "pull:ok", "create:error">> }

\* C11: from its first container creation on, ImageTar's calls on the
\* engine follow the retry policy: a creation that fails with "No such
\* image" is followed by one pull and, if the pull went through, by one
\* more creation; a failed pull, a failed second creation and any other
\* error of the first creation end the run with an error and no further
\* call; no run creates more than twice.
C11_PullOnceRetryOnce ==
    /\ \E r \in RetryRuns : IsPrefix(SinceFirstCreate, r)
    /\ Cardinality(CreateCalls) <= 2
    /\ tPc = "done" =>
          /\ SinceFirstCreate \in RetryRuns \cup {<<>>}
          /\ SinceFirstCreate = <<"create:error">> =>
                tRet = Some("Failed to create docker image")
          /\ SinceFirstCreate = <<"create:No such image", "pull:error">> =>
                tRet = Some("Could not pull image")
          /\ (Len(SinceFirstCreate) = 3 /\ SinceFirstCreate[3] # "create:ok") =>
                tRet = Some("Failed to docker create image")

\* a run that found no image, pulled, created at the second attempt and
\* went on to return nil
C11_Witness ==
    /\ TarSucceeded
    /\ ~tArgs.pull /\ ~tArgs.trust
    /\ tDocker.log = <<"create:No such image", "pull:ok", "create:ok">>
    /\ tDocker.creates = 2 /\ tDocker.pulls = 1

\* the directory names a prefix spells out: for each "/" of the prefix, in
\* order, what stands before it
LeadingDirs(prefix) ==
    LET slashes == {i \in 1..Len(prefix) : prefix[i] = "/"}
        nth(k) == CHOOSE i \in slashes : Cardinality({j \in slashes : j < i}) = k - 1
    IN  [k \in 1..Cardinality(slashes) |-> Str(SubSeq(prefix, 1, nth(k) - 1))]

\* the entries of tw that are prefix directories
DirEntries == {i \in 1..Len(tw) : tw[i].src = 0}

\* C17: for a relative prefix c1/.../cn/ the directory headers written are
\* c1, c1/c2, ..., c1/.../cn, each once, in that order, at the head of the
\* archive, all of them before ImageTar turns to the engine and so before
\* any entry of the image; for the empty prefix none is written; for a
\* prefix that does not end in "/", or that begins with "/", ImageTar
\* returns an error and has written nothing.
C17_PrefixDirectories ==
    LET prefix == tArgs.prefix
        dirs == LeadingDirs(prefix)
        bad == prefix # <<>> /\ (prefix[Len(prefix)] # "/" \/ prefix[1] = "/")
    IN  /\ prefix = <<>> => DirEntries = {}
        /\ bad => /\ tw = <<>>
                  /\ tPc \in {"start", "done"}
                  /\ tPc = "done" => tRet \notin {Nil, Some("nil")}
        /\ (prefix # <<>> /\ ~bad) =>
              /\ \E n \in 0..Len(dirs) : DirEntries = 1..n
              /\ \A i \in DirEntries : tw[i].hdr = DirHeader(dirs[i])
              /\ tPc \notin {"start", "prefix", "done"} => DirEntries = 1..Len(dirs)
              /\ (tDocker.log # <<>> \/ \E i \in 1..Len(tw) : tw[i].src # 0) =>
                    DirEntries = 1..Len(dirs)

\* the source entries that are neither excluded nor replaced
Copied == {k \in 1..Len(tSrc) : tSrc[k].hdr.Name \notin exclude \cup DOMAIN replace}

\* C18: whatever ImageTar writes for a source entry that is in neither set
\* has the entry's header with the name changed to prefix+name and nothing
\* else, and no bytes but the entry's own; the entries written for the
\* image stand in the archive in the order of the source stream; and when
\* ImageTar returns nil each such source entry has been written exactly
\* once, with all of its content.
C18_CopiedThrough ==
    /\ \A k \in Copied :
          /\ \A i \in Outputs(k) :
                /\ tw[i].hdr = [tSrc[k].hdr EXCEPT !.Name = Str(tArgs.prefix) \o tSrc[k].hdr.Name]
                /\ tw[i].data \in {"", tSrc[k].data}
                /\ tw[i].whole => tw[i].data = tSrc[k].data
          /\ Cardinality(Outputs(k)) <= 1
          /\ TarSucceeded => \E i \in Outputs(k) : tw[i].whole
    /\ \A i, j \in 1..Len(tw) :
          (i < j /\ tw[j].src # 0) => tw[i].src < tw[j].src

\* a finished run under the prefix p/ whose source held a file and a
\* directory outside both sets: both are in the archive, after the
\* directory p, in the order of the source
C18_Witness ==
    /\ TarSucceeded
    /\ tArgs.prefix = <<"p", "/">>
    /\ Len(tSrc) = 2
    /\ tSrc[1].hdr.Name = "dev/pts/" /\ tSrc[2].hdr.Name = "bin/sh"
    /\ Len(tw) = 3
    /\ tw[1].hdr.Name = "p"
    /\ tw[2].hdr = [Name |-> "p/dev/pts/", Typeflag |-> "5", Mode |-> 493, Size |-> 0]
    /\ tw[3].hdr = [Name |-> "p/bin/sh", Typeflag |-> "0", Mode |-> 420, Size |-> 6]
    /\ tw[3].data = "secret" /\ tw[3].whole

\* C21: once ImageTar has returned, whatever it returned, the engine holds
\* no container that this run created: every container created is removed
\* before the return, also when the export of its filesystem fails.
C21_ContainersRemoved ==
    tPc = "done" => tDocker.live = {}

\* C22: ImageTar's handling of the prefix never ends in a runtime failure,
\* and for a prefix that ends in "/" and begins with "/", the bare "/"
\* included, ImageTar returns the error "path should be relative" as soon
\* as it has looked at the prefix.
C22_PrefixNeverFails ==
    LET prefix == tArgs.prefix
    IN  /\ tPc # "panic"
        /\ (prefix # <<>> /\ prefix[Len(prefix)] = "/" /\ prefix[1] = "/" /\ tPc # "start") =>
              (tPc = "done" /\ tRet = Some("path should be relative"))

(***************************************************************************)
(* Output dispatcher and build cache: Formats, ValidateFormats,            *)
(* ensurePrereq, ensureLinuxkitImage and writeKernelInitrd.                *)
(* A process is one run of the tool; it can be killed at any point, and    *)
(* what it wrote to the cache directory stays.  A cache file is filled by  *)
(* ioutil.WriteFile: created or truncated first, then written.             *)
(***************************************************************************)
Procs == {1, 2}

\* the processes of the sequential specification: one run at a time
SeqProcs == {1}

\* the keys of outFuns
outFuns ==
    { "kernel+initrd", "tar-kernel-initrd", "iso-bios", "iso-efi", "raw", "gcp",
      "qcow2", "vhd", "dynamic-vhd", "vmdk", "rpi3" }

\* prereq[out] of a Go map: the empty string for a missing key
prereq(out) == IF out \in {"raw", "qcow2"} THEN "mkimage" ELSE ""

\* the format names the requests are drawn from: two with the mkimage
\* prerequisite, one without, one that is no key of outFuns
FormatNames == {"raw", "qcow2", "kernel+initrd", "bogus"}

FormatLists == SeqsUpTo(FormatNames, MaxFormats)

\* the files of a cache entry, in the order they are checked and written
CacheFiles == <<"-kernel", "-initrd.img", "-cmdline">>

NoFile == [exists |-> FALSE, data |-> <<>>, want |-> <<>>]

\* what tarToInitrd yields for file f: the whole artifact of a build that
\* went through, or an empty one from the buffer a failed Build left
Artifact(f, art) == IF art = "good" THEN [i \in 1..MaxChunks |-> f] ELSE <<>>

\* a process that is not running
IdleProc ==
    [pc |-> "idle", formats |-> <<>>, i |-> 0, ret |-> "", converted |-> 0,
     ensured |-> 0, n |-> 0, found |-> {}, hit |-> FALSE, torn |-> {}, built |-> 0,
     wrote |-> {}, art |-> "", eret |-> "", outs |-> <<>>]

\* the program counters inside ensureLinuxkitImage
EnsurePcs == {"stat", "mkdir", "build", "open", "write", "ens_ret"}

Init ==
    /\ proc = [p \in Procs |-> IdleProc]
    /\ cache = [f \in Range(CacheFiles) |-> NoFile]
    /\ lastEnsure = Nil
    /\ runs = 0
    /\ OCIIdle
    /\ OverrideIdle
    /\ TarIdle
    /\ SchemaIdle /\ BundleIdle /\ LinuxKitIdle /\ RunIdle

\* the record of a call of ensureLinuxkitImage that ended with ret
EnsureRecord(p, ret) ==
    Some([ret |-> ret, hit |-> proc[p].hit, found |-> proc[p].found,
          built |-> proc[p].built, wrote |-> proc[p].wrote])

\* output.go 176-177: a process calls Formats(base, image, formats, size)
FormatsCall(p) ==
    /\ proc[p].pc = "idle"
    /\ runs < MaxRuns
    /\ \E fs \in FormatLists :
          proc' = [proc EXCEPT ![p] = [IdleProc EXCEPT !.pc = "validate", !.formats = fs, !.i = 1]]
    /\ runs' = runs + 1
    /\ UNCHANGED <<cache, lastEnsure>>
    /\ UNCHANGED notFormats

\* output.go 148-155: where ensurePrereq(out) goes: into
\* ensureLinuxkitImage when the format has a prerequisite, else back
EnsurePrereqPc(out) == IF prereq(out) # "" THEN "stat" ELSE "validate"

\* output.go 158-173: one round of ValidateFormats' loop, up to the call
\* of ensureLinuxkitImage; after the last round Formats goes on to convert
ValidateFormats(p) ==
    /\ proc[p].pc = "validate"
    /\ LET me == proc[p]
           o == me.formats[me.i]
       IN  IF me.i > Len(me.formats)
           THEN proc' = [proc EXCEPT ![p].pc = "convert", ![p].i = 1]
           ELSE IF o \notin outFuns
           THEN proc' = [proc EXCEPT ![p].pc = "done", ![p].ret = "Unknown format type"]
           ELSE IF EnsurePrereqPc(o) = "validate"
           THEN proc' = [proc EXCEPT ![p].i = @ + 1]
           ELSE proc' = [proc EXCEPT ![p].pc = "stat", ![p].ensured = @ + 1, ![p].n = 1,
                                     ![p].found = {}, ![p].hit = FALSE, ![p].torn = {},
                                     ![p].built = 0,
                                     ![p].wrote = {}, ![p].art = "", ![p].eret = ""]
    /\ UNCHANGED <<cache, lastEnsure, runs>>
    /\ UNCHANGED notFormats

\* a check that looks for a file name writeKernelInitrd never writes
IsHit_WrongName(found) == found = {"-kernel", "-initrd", "-cmdline"}

\* output.go 419: err1 == nil && err2 == nil && err3 == nil
IsHit(found) == found = Range(CacheFiles)

\* the cache files that do not hold all of what their writer was given
Torn == {f \in Range(CacheFiles) : cache[f].exists /\ cache[f].data # cache[f].want}

\* output.go 415-421: the three os.Stat calls, one a step, and the return
\* on a hit; torn keeps which files were incomplete when the hit was found
Stat(p) ==
    /\ proc[p].pc = "stat"
    /\ LET me == proc[p]
           f == CacheFiles[me.n]
           found == IF cache[f].exists THEN me.found \cup {f} ELSE me.found
       IN  IF me.n < Len(CacheFiles)
           THEN proc' = [proc EXCEPT ![p].found = found, ![p].n = @ + 1]
           ELSE IF IsHit(found)
           THEN proc' = [proc EXCEPT ![p].found = found, ![p].hit = TRUE, ![p].torn = Torn,
                                     ![p].pc = "ens_ret", ![p].eret = "nil"]
           ELSE proc' = [proc EXCEPT ![p].found = found, ![p].pc = "mkdir"]
    /\ UNCHANGED <<cache, lastEnsure, runs>>
    /\ UNCHANGED notFormats

\* output.go 422-425: os.MkdirAll of the cache directory
MkdirAll(p) ==
    /\ proc[p].pc = "mkdir"
    /\ \/ proc' = [proc EXCEPT ![p].pc = "build"]
       \/ proc' = [proc EXCEPT ![p].pc = "ens_ret", ![p].eret = "error"]
    /\ UNCHANGED <<cache, lastEnsure, runs>>
    /\ UNCHANGED notFormats

\* a build that is left out when another run is already writing the entry
BuildImage_Shared(p) ==
    /\ proc[p].pc = "build"
    /\ IF \E q \in Procs \ {p} : proc[q].pc \in {"open", "write"}
       THEN proc' = [proc EXCEPT ![p].pc = "ens_ret", ![p].eret = "nil"]
       ELSE \/ proc' = [proc EXCEPT ![p].pc = "ens_ret", ![p].eret = "error"]
            \/ proc' = [proc EXCEPT ![p].built = @ + 1, ![p].art = "good", ![p].pc = "open",
                                    ![p].n = 1]
    /\ UNCHANGED <<cache, lastEnsure, runs>>
    /\ UNCHANGED notFormats

\* output.go 429-442: NewConfig, Build (its result is not looked at) and
\* tarToInitrd, which may or may not fail on what a failed Build left
BuildImage(p) ==
    /\ proc[p].pc = "build"
    /\ \/ proc' = [proc EXCEPT ![p].pc = "ens_ret", ![p].eret = "error"]      \* NewConfig fails
       \/ proc' = [proc EXCEPT ![p].built = @ + 1, ![p].art = "good", ![p].pc = "open",
                               ![p].n = 1]
       \/ proc' = [proc EXCEPT ![p].built = @ + 1, ![p].art = "truncated", ![p].pc = "open",
                               ![p].n = 1]
       \/ proc' = [proc EXCEPT ![p].built = @ + 1, ![p].pc = "ens_ret", ![p].eret = "error"]
    /\ UNCHANGED <<cache, lastEnsure, runs>>
    /\ UNCHANGED notFormats

\* where writeKernelInitrd stands once its current file is written in full
AfterFile(me) ==
    IF me.n = Len(CacheFiles)
    THEN [me EXCEPT !.pc = "ens_ret", !.eret = "nil"]
    ELSE [me EXCEPT !.pc = "open", !.n = @ + 1]

\* output.go 451-465, ioutil.WriteFile: the file is created or truncated
WriteFileOpen(p) ==
    /\ proc[p].pc = "open"
    /\ LET me == proc[p]
           f == CacheFiles[me.n]
           data == Artifact(f, me.art)
           opened == [me EXCEPT !.wrote = @ \cup {f}]
       IN  \/ /\ cache' = [cache EXCEPT ![f] = [exists |-> TRUE, data |-> <<>>, want |-> data]]
              /\ proc' = [proc EXCEPT ![p] =
                             IF data = <<>> THEN AfterFile(opened)
                             ELSE [opened EXCEPT !.pc = "write"]]
           \/ /\ proc' = [proc EXCEPT ![p].pc = "ens_ret", ![p].eret = "error"]
              /\ UNCHANGED cache
    /\ UNCHANGED <<lastEnsure, runs>>
    /\ UNCHANGED notFormats

\* output.go 451-465, ioutil.WriteFile: the data goes out, a part at a time
WriteFileWrite(p) ==
    /\ proc[p].pc = "write"
    /\ LET me == proc[p]
           f == CacheFiles[me.n]
           data == Artifact(f, me.art)
           sofar == Append(cache[f].data, data[Len(cache[f].data) + 1])
       IN  \/ /\ Len(cache[f].data) < Len(data)
              /\ cache' = [cache EXCEPT ![f].data = sofar]
              /\ proc' = [proc EXCEPT ![p] = IF sofar = data THEN AfterFile(me) ELSE me]
           \/ /\ proc' = [proc EXCEPT ![p].pc = "ens_ret", ![p].eret = "error"]
              /\ UNCHANGED cache
    /\ UNCHANGED <<lastEnsure, runs>>
    /\ UNCHANGED notFormats

\* output.go 166-169: ensureLinuxkitImage returns to ValidateFormats
EnsureReturn(p) ==
    /\ proc[p].pc = "ens_ret"
    /\ lastEnsure' = EnsureRecord(p, proc[p].eret)
    /\ IF proc[p].eret = "nil"
       THEN proc' = [proc EXCEPT ![p].pc = "validate", ![p].i = @ + 1]
       ELSE proc' = [proc EXCEPT ![p].pc = "done", ![p].ret = "Failed to set up format type"]
    /\ UNCHANGED <<cache, runs>>
    /\ UNCHANGED notFormats

\* a loop over the converters that goes on after one of them failed and
\* reports the failure at the end
Convert_BestEffort(p) ==
    /\ proc[p].pc = "convert"
    /\ IF proc[p].i > Len(proc[p].formats)
       THEN proc' = [proc EXCEPT ![p].pc = "done",
                                 ![p].ret = IF proc[p].ret = "" THEN "nil" ELSE proc[p].ret]
       ELSE \/ proc' = [proc EXCEPT ![p].converted = @ + 1, ![p].i = @ + 1,
                                    ![p].outs = Append(@, proc[p].formats[proc[p].i])]
            \/ proc' = [proc EXCEPT ![p].converted = @ + 1, ![p].i = @ + 1,
                                    ![p].outs = Append(@, proc[p].formats[proc[p].i]),
                                    ![p].ret = "converter error"]
    /\ UNCHANGED <<cache, lastEnsure, runs>>
    /\ UNCHANGED notFormats

\* output.go 183-191: one round of Formats' loop over the converters
Convert(p) ==
    /\ proc[p].pc = "convert"
    /\ IF proc[p].i > Len(proc[p].formats)
       THEN proc' = [proc EXCEPT ![p].pc = "done", ![p].ret = "nil"]
       ELSE \/ proc' = [proc EXCEPT ![p].converted = @ + 1, ![p].i = @ + 1,
                                    ![p].outs = Append(@, proc[p].formats[proc[p].i])]
            \/ proc' = [proc EXCEPT ![p].converted = @ + 1, ![p].pc = "done",
                                    ![p].outs = Append(@, proc[p].formats[proc[p].i]),
                                    ![p].ret = "converter error"]
    /\ UNCHANGED <<cache, lastEnsure, runs>>
    /\ UNCHANGED notFormats

\* Formats has returned and the process ends
FormatsReturn(p) ==
    /\ proc[p].pc = "done"
    /\ proc' = [proc EXCEPT ![p] = IdleProc]
    /\ UNCHANGED <<cache, lastEnsure, runs>>
    /\ UNCHANGED notFormats

\* the process is killed where it stands; the cache directory stays
Interrupt(p) ==
    /\ proc[p].pc \notin {"idle", "done"}
    /\ proc' = [proc EXCEPT ![p] = IdleProc]
    /\ lastEnsure' = IF proc[p].pc \in EnsurePcs THEN EnsureRecord(p, "killed") ELSE lastEnsure
    /\ UNCHANGED <<cache, runs>>
    /\ UNCHANGED notFormats

Next ==
    \E p \in SeqProcs :
        \/ FormatsCall(p)
        \/ ValidateFormats(p)
        \/ Stat(p)
        \/ MkdirAll(p)
        \/ BuildImage(p)
        \/ WriteFileOpen(p)
        \/ WriteFileWrite(p)
        \/ EnsureReturn(p)
        \/ Convert(p)
        \/ FormatsReturn(p)
        \/ Interrupt(p)

Spec == Init /\ [][Next]_vars

\* two runs of the tool at once over an empty cache directory, each asked
\* for two formats whose prerequisite is mkimage, so that each calls
\* ensureLinuxkitImage twice; both have entered ValidateFormats
InitConcurrent ==
    /\ proc = [p \in Procs |->
                  [IdleProc EXCEPT !.pc = "validate", !.formats = <<"raw", "qcow2">>, !.i = 1]]
    /\ cache = [f \in Range(CacheFiles) |-> NoFile]
    /\ lastEnsure = Nil
    /\ runs = Cardinality(Procs)
    /\ OCIIdle
    /\ OverrideIdle
    /\ TarIdle
    /\ SchemaIdle /\ BundleIdle /\ LinuxKitIdle /\ RunIdle

\* the steps of the runs, taken in any order
NextConcurrent ==
    \E p \in Procs :
        \/ ValidateFormats(p)
        \/ Stat(p)
        \/ MkdirAll(p)
        \/ BuildImage(p)
        \/ WriteFileOpen(p)
        \/ WriteFileWrite(p)
        \/ EnsureReturn(p)
        \/ Convert(p)

SpecConcurrent == InitConcurrent /\ [][NextConcurrent]_vars

\* process p is inside a call of ensureLinuxkitImage
InEnsure(p) == proc[p].pc \in EnsurePcs

\* the file holds all of what the WriteFile that made it was given
Complete(file) == file.exists /\ file.data = file.want

\* C7: once a call of ensureLinuxkitImage("mkimage") has returned nil, the
\* next call looks, finds the three files, and returns nil: it does not
\* build and it creates or writes no file.  The two calls together run the
\* build pipeline once when the first one found the cache incomplete (and
\* not at all when the first one was a hit itself).
C7_SecondCallIsHit ==
    \A p \in Procs :
        (InEnsure(p) /\ lastEnsure # Nil /\ Get(lastEnsure).ret = "nil") =>
            /\ proc[p].pc \in {"stat", "ens_ret"}
            /\ proc[p].built = 0
            /\ proc[p].wrote = {}
            /\ proc[p].pc = "ens_ret" => (proc[p].hit /\ proc[p].eret = "nil")
            /\ Get(lastEnsure).built + proc[p].built = IF Get(lastEnsure).hit THEN 0 ELSE 1

\* the second call is about to return nil on a hit, right after a first
\* call that missed, built once, wrote the three files and returned nil
C7_Witness ==
    \E p \in Procs :
        /\ proc[p].pc = "ens_ret" /\ proc[p].hit /\ proc[p].eret = "nil"
        /\ proc[p].built = 0 /\ proc[p].wrote = {}
        /\ lastEnsure # Nil
        /\ Get(lastEnsure).ret = "nil" /\ ~Get(lastEnsure).hit
        /\ Get(lastEnsure).built = 1 /\ Get(lastEnsure).wrote = Range(CacheFiles)
        /\ \A f \in Range(CacheFiles) : Complete(cache[f])

\* C8: ensureLinuxkitImage reports a hit only when the three files all
\* exist and each holds the complete content its writer was given, also
\* after an earlier call was cut short inside writeKernelInitrd.
C8_HitOnlyOnCompleteEntry ==
    \A p \in Procs :
        (proc[p].pc = "ens_ret" /\ proc[p].hit) =>
            \A f \in Range(CacheFiles) : Complete(cache[f])

\* a requested name that is no key of outFuns
HasUnknown(formats) == \E k \in 1..Len(formats) : formats[k] \notin outFuns

\* C9: when the list handed to Formats holds a name that is no key of
\* outFuns, at whatever position, Formats returns the unknown-format error
\* and no converter has been invoked.
C9_UnknownFormatFailsFast ==
    \A p \in Procs :
        HasUnknown(proc[p].formats) =>
            /\ proc[p].converted = 0
            /\ proc[p].pc = "done" => proc[p].ret = "Unknown format type"

\* C10: when the list holds an unknown name, ValidateFormats has started no
\* prerequisite set-up for any format of the list, those before the
\* unknown name included: no call of ensureLinuxkitImage, no build, no
\* cache file written.
C10_NoSetupBeforeUnknown ==
    \A p \in Procs :
        HasUnknown(proc[p].formats) =>
            /\ proc[p].ensured = 0
            /\ proc[p].built = 0
            /\ proc[p].wrote = {}

(***************************************************************************)
(* Config model: the schema a configuration is validated against.          *)
(* A document is a JSON value: a record of its type t and its value v; an  *)
(* object's value is a function from its keys, an array's a sequence.      *)
(***************************************************************************)
JString(v) == [t |-> "string", v |-> v]
JInteger(v) == [t |-> "integer", v |-> v]
JArray(items) == [t |-> "array", v |-> items]
JObject(members) == [t |-> "object", v |-> members]

\* an object with no member
NoMembers == [k \in {} |-> JString("")]

\* the schema: for each definition the keywords it is made of.  "top" is
\* the root, which has no "type"; additionalGids and sysctl name the two
\* arrays the image definition spells out in place
SchemaDefs ==
    [top |->
        [type |-> "", closed |-> TRUE, required |-> {},
         properties |->
            [kernel |-> "kernel", init |-> "strings", onboot |-> "images",
             services |-> "images", trust |-> "trust", files |-> "files",
             overrides |-> "overrides"]],
     kernel |->
        [type |-> "object", closed |-> TRUE, required |-> {},
         properties |-> [image |-> "string", cmdline |-> "string"]],
     file |->
        [type |-> "object", closed |-> TRUE, required |-> {},
         properties |->
            [path |-> "string", directory |-> "boolean", symlink |-> "string",
             contents |-> "string", source |-> "string", optional |-> "boolean",
             mode |-> "string"]],
     files |-> [type |-> "array", items |-> "file"],
     trust |->
        [type |-> "object", closed |-> TRUE, required |-> {},
         properties |-> [image |-> "strings", org |-> "strings"]],
     strings |-> [type |-> "array", items |-> "string"],
     mount |->
        [type |-> "object", closed |-> TRUE, required |-> {},
         properties |->
            [destination |-> "string", type |-> "string", source |-> "string",
             options |-> "strings"]],
     mounts |-> [type |-> "array", items |-> "mount"],
     image |->
        [type |-> "object", closed |-> TRUE, required |-> {"name", "image"},
         properties |->
            [name |-> "string", image |-> "string", capabilities |-> "strings",
             mounts |-> "mounts", binds |-> "strings", tmpfs |-> "strings",
             command |-> "strings", env |-> "strings", cwd |-> "string",
             net |-> "string", pid |-> "string", ipc |-> "string", uts |-> "string",
             readonly |-> "boolean", maskedPaths |-> "strings",
             readonlyPaths |-> "strings", uid |-> "integer", gid |-> "integer",
             additionalGids |-> "additionalGids", noNewPrivileges |-> "boolean",
             hostname |-> "string", oomScoreAdj |-> "integer",
             disableOOMKiller |-> "boolean", rootfsPropagation |-> "string",
             cgroupsPath |-> "string", sysctl |-> "sysctl", rlimits |-> "strings"]],
     additionalGids |-> [type |-> "array", items |-> "integer"],
     sysctl |-> [type |-> "array", items |-> "strings"],
     images |-> [type |-> "array", items |-> "image"],
     override |->
        [type |-> "object", closed |-> FALSE, required |-> {},
         properties |-> [destination |-> "string", source |-> "string"]],
     overrides |-> [type |-> "array", items |-> "override"]]

\* the types a schema names outright
Primitives == {"string", "boolean", "integer"}

RECURSIVE Valid(_, _)
\* the document meets the definition ref of the schema: type, items,
\* required, properties and additionalProperties as the schema's draft
\* defines them (a key that is not among the properties is allowed unless
\* additionalProperties is false)
Valid(ref, doc) ==
    IF ref \in Primitives THEN doc.t = ref
    ELSE LET d == SchemaDefs[ref]
         IN  IF d.type = "array"
             THEN /\ doc.t = "array"
                  /\ \A i \in 1..Len(doc.v) : Valid(d.items, doc.v[i])
             ELSE /\ d.type = "object" => doc.t = "object"
                  /\ doc.t = "object" =>
                        /\ d.required \subseteq DOMAIN doc.v
                        /\ \A k \in DOMAIN doc.v :
                              IF k \in DOMAIN d.properties
                              THEN Valid(d.properties[k], doc.v[k])
                              ELSE ~d.closed

\* the verdict of the validation on a whole configuration
Validate(doc) == IF Valid("top", doc) THEN "accepted" ELSE "SchemaError"

\* the members configurations are put together from: none, well-formed
\* ones, ones with a key nothing declares, images short of a required key
KernelObjects ==
    { "image" :> JString("k"),
      ("image" :> JString("k")) @@ ("cmdline" :> JString("c")),
      ("image" :> JString("k")) @@ ("bogus" :> JString("x")) }

ImageBase == ("name" :> JString("n")) @@ ("image" :> JString("i"))

ImageObjects ==
    { ImageBase,
      "name" :> JString("n"),
      "image" :> JString("i"),
      ImageBase @@ ("bogus" :> JString("x")),
      ImageBase @@ ("uid" :> JInteger(0)),
      ImageBase @@ ("mounts" :> JArray(<<JObject("destination" :> JString("/d"))>>)),
      ImageBase @@ ("mounts" :> JArray(<<JObject(("destination" :> JString("/d"))
                                                  @@ ("bogus" :> JString("x")))>>)) }

OverrideObjects ==
    { ("source" :> JString("foo/bar")) @@ ("substitute" :> JString("foo/bar:quux")),
      ("source" :> JString("foo/bar")) @@ ("destination" :> JString("foo/bar:quux")),
      "source" :> JString("foo/bar"),
      ("source" :> JString("foo/bar")) @@ ("substitute" :> JString("foo/bar:quux"))
                                       @@ ("bogus" :> JString("x")) }

TrustObjects ==
    { "org" :> JArray(<<JString("o")>>),
      ("org" :> JArray(<<JString("o")>>)) @@ ("bogus" :> JString("x")) }

FileObjects ==
    { "path" :> JString("etc/motd"),
      ("path" :> JString("etc/motd")) @@ ("bogus" :> JString("x")) }

\* the member key, absent or holding one of the objects
ObjectMember(key, objects) == {NoMembers} \cup {key :> JObject(o) : o \in objects}

\* the member key, absent or holding a list of the objects
ListMember(key, objects) ==
    {NoMembers} \cup
    {key :> JArray(l) : l \in SeqsUpTo({JObject(o) : o \in objects}, MaxEntries)}

InitSchema ==
    /\ \E extra \in {NoMembers, "bogus" :> JString("x")},
          kernel \in ObjectMember("kernel", KernelObjects),
          onboot \in ListMember("onboot", ImageObjects),
          overrides \in ListMember("overrides", OverrideObjects),
          trust \in ObjectMember("trust", TrustObjects),
          files \in ListMember("files", FileObjects) :
            sch = [doc |-> JObject(extra @@ kernel @@ onboot @@ overrides @@ trust @@ files),
                   out |-> Nil]
    /\ OCIIdle /\ OverrideIdle /\ TarIdle /\ FormatsIdle
    /\ BundleIdle /\ LinuxKitIdle /\ RunIdle

\* NewConfig's validation of the parsed document against the schema
NewConfigValidate ==
    /\ sch.out = Nil
    /\ sch' = [sch EXCEPT !.out = Some(Validate(sch.doc))]
    /\ UNCHANGED notSchema

NextSchema == NewConfigValidate

SpecSchema == InitSchema /\ [][NextSchema]_vars

\* the keys an object of each kind may hold according to the configuration
\* contract: those the schema declares, and for an override rule source and
\* substitute
ContractKeys(ref) ==
    IF ref = "override" THEN {"source", "substitute"}
    ELSE DOMAIN SchemaDefs[ref].properties

RECURSIVE Undeclared(_, _)
\* the document holds, at the top or inside some object, a key the contract
\* does not declare, or an image without name or image
Undeclared(ref, doc) ==
    IF ref \in Primitives THEN FALSE
    ELSE IF SchemaDefs[ref].type = "array"
    THEN \E i \in 1..Len(doc.v) : Undeclared(SchemaDefs[ref].items, doc.v[i])
    ELSE \/ ~(SchemaDefs[ref].required \subseteq DOMAIN doc.v)
         \/ \E k \in DOMAIN doc.v :
               \/ k \notin ContractKeys(ref)
               \/ /\ k \in DOMAIN SchemaDefs[ref].properties
                  /\ Undeclared(SchemaDefs[ref].properties[k], doc.v[k])

\* C12: a configuration that holds a key declared nowhere, at the top level
\* or inside a kernel, file, trust, mount, image or override object, or an
\* image without name or image, is rejected; an override object may hold
\* the keys source and substitute and no other.
C12_SchemaClosed ==
    (sch.out # Nil /\ Undeclared("top", sch.doc)) => Get(sch.out) = "SchemaError"

(***************************************************************************)
(* ImageBundle: the root filesystem of an image under path/rootfs/, then   *)
(* path/config.json.  It runs ImageTar, whose steps are those of SpecTar.  *)
(***************************************************************************)
\* the characters of "/rootfs/"
RootfsSuffix == <<"/", "r", "o", "o", "t", "f", "s", "/">>

\* the paths tried: one and two components, the empty path, an absolute one
BundlePaths == { <<"c">>, <<"a", "/", "b">>, <<>>, <<"/", "c">> }

\* the config.json contents tried
BundleConfigs == {"{}", ""}

InitBundle ==
    /\ \E path \in BundlePaths, config \in BundleConfigs, pull \in BOOLEAN, trust \in BOOLEAN :
          /\ bundle = [path |-> path, config |-> config, pc |-> "tar", ret |-> Nil]
          /\ tArgs = [prefix |-> path \o RootfsSuffix, pull |-> pull, trust |-> trust]
    /\ TarStart
    /\ OCIIdle /\ OverrideIdle /\ FormatsIdle
    /\ SchemaIdle /\ LinuxKitIdle /\ RunIdle

\* the header of config.json: name, mode 0644, size, no type flag set
ConfigHeader ==
    [Name |-> Str(bundle.path) \o "/" \o "config.json", Typeflag |-> "",
     Mode |-> 420, Size |-> Len(bundle.config)]

\* an ImageBundle that goes on to config.json whatever ImageTar returned
ImageBundleAfterTar_IgnoreError ==
    /\ bundle.pc = "tar"
    /\ tPc = "done"
    /\ bundle' = [bundle EXCEPT !.pc = "config_hdr"]
    /\ UNCHANGED tarVars
    /\ UNCHANGED notBundle

\* lines 172-175: ImageTar has returned; its error is ImageBundle's
ImageBundleAfterTar ==
    /\ bundle.pc = "tar"
    /\ tPc = "done"
    /\ bundle' = IF tRet = Some("nil")
                 THEN [bundle EXCEPT !.pc = "config_hdr"]
                 ELSE [bundle EXCEPT !.pc = "done", !.ret = tRet]
    /\ UNCHANGED tarVars
    /\ UNCHANGED notBundle

\* lines 176-184: the header of config.json
ImageBundleHeader ==
    /\ bundle.pc = "config_hdr"
    /\ \/ /\ WriteHeader(ConfigHeader, -1)
          /\ bundle' = [bundle EXCEPT !.pc = "config_copy"]
       \/ /\ bundle' = [bundle EXCEPT !.pc = "done", !.ret = Some("write error")]
          /\ UNCHANGED tw
    /\ UNCHANGED <<tArgs, tPc, tIdx, tSrc, tRet, tDocker>>
    /\ UNCHANGED notBundle

\* lines 185-191: the bytes of config.json; a copy that fails has written
\* nothing, or a leading part
ImageBundleCopy ==
    /\ bundle.pc = "config_copy"
    /\ \/ /\ tw' = [tw EXCEPT ![Len(tw)].data = bundle.config, ![Len(tw)].whole = TRUE]
          /\ bundle' = [bundle EXCEPT !.pc = "done", !.ret = Some("nil")]
       \/ /\ bundle' = [bundle EXCEPT !.pc = "done", !.ret = Some("write error")]
          /\ \/ UNCHANGED tw
             \/ bundle.config # "" /\ tw' = [tw EXCEPT ![Len(tw)].data = bundle.config]
    /\ UNCHANGED <<tArgs, tPc, tIdx, tSrc, tRet, tDocker>>
    /\ UNCHANGED notBundle

NextBundle ==
    \/ NextTar
    \/ ImageBundleAfterTar
    \/ ImageBundleHeader
    \/ ImageBundleCopy

SpecBundle == InitBundle /\ [][NextBundle]_vars

\* ImageBundle is over and it returned nil
BundleSucceeded == bundle.pc = "done" /\ bundle.ret = Some("nil")

\* the entries of the archive that are named path/config.json
ConfigEntries == {i \in 1..Len(tw) : tw[i].hdr.Name = Str(bundle.path) \o "/config.json"}

\* the entries of the archive written for the image: named
\* path/rootfs/ followed by the name of the source entry they stand for
RootfsEntries ==
    {i \in 1..Len(tw) :
        /\ tw[i].src \in 1..Len(tSrc)
        /\ tw[i].hdr.Name = Str(bundle.path) \o "/rootfs/" \o tSrc[tw[i].src].hdr.Name}

\* C13: when ImageBundle(path, ...) returns nil, the archive's last entry
\* is the only one named path/config.json, its size is the length of the
\* given config and its data the config, whole; every entry of the image
\* that is not excluded has been written in full, under path/rootfs/,
\* before it, and so have the directories leading to path/rootfs.  While
\* ImageTar has not returned nil, and when it returned an error, the
\* archive holds no path/config.json.
C13_RootfsThenConfig ==
    /\ BundleSucceeded =>
          /\ ConfigEntries = {Len(tw)}
          /\ tw[Len(tw)].hdr.Size = Len(bundle.config)
          /\ tw[Len(tw)].data = bundle.config
          /\ tw[Len(tw)].whole
          /\ \A k \in 1..Len(tSrc) :
                Classify(tSrc[k].hdr.Name) # "exclude" =>
                    \E i \in RootfsEntries : i < Len(tw) /\ tw[i].src = k /\ tw[i].whole
          /\ \A i \in 1..(Len(tw) - 1) :
                \/ i \in RootfsEntries
                \/ tw[i].src = 0 /\ tw[i].hdr.Typeflag = "5"
    /\ ConfigEntries # {} => (tPc = "done" /\ tRet = Some("nil"))

\* a bundle at c: the directories c and c/rootfs, two entries of the image,
\* then c/config.json holding the config
C13_Witness ==
    /\ BundleSucceeded
    /\ bundle.path = <<"c">> /\ bundle.config = "{}"
    /\ Len(tSrc) = 2
    /\ tSrc[1].hdr.Name = "bin/sh" /\ tSrc[2].hdr.Name = "etc/hosts"
    /\ Len(tw) = 5
    /\ tw[1].hdr.Name = "c" /\ tw[2].hdr.Name = "c/rootfs"
    /\ tw[3].hdr.Name = "c/rootfs/bin/sh" /\ tw[4].hdr.Name = "c/rootfs/etc/hosts"
    /\ tw[5].hdr.Name = "c/config.json" /\ tw[5].hdr.Size = 2 /\ tw[5].data = "{}"

(***************************************************************************)
(* The build cache under concurrent runs (SpecConcurrent).                 *)
(***************************************************************************)
\* C14: nothing in ensureLinuxkitImage makes one invocation wait for, or
\* defer to, another working on the same entry: every invocation that
\* observed a miss goes on to build and to write the three files itself,
\* whatever the others are doing, and a hit is declared on the existence of
\* the three names alone.  Two invocations can so both miss, both build and
\* both write the same files, and a third can find all three present while
\* one is being rewritten (the witness).
C14_NoMutualExclusion ==
    \A p \in Procs :
        /\ proc[p].pc \in {"mkdir", "build", "open", "write"} =>
              ~proc[p].hit /\ ~IsHit(proc[p].found)
        /\ proc[p].pc \in {"open", "write"} => proc[p].built = 1
        /\ (proc[p].pc = "ens_ret" /\ proc[p].eret = "nil" /\ ~proc[p].hit) =>
              proc[p].built = 1 /\ proc[p].wrote = Range(CacheFiles)
        /\ (proc[p].pc = "ens_ret" /\ proc[p].hit) =>
              /\ proc[p].built = 0 /\ proc[p].wrote = {}
              /\ \A f \in Range(CacheFiles) : cache[f].exists

\* run p and run q both found the cache empty and both built; p wrote the
\* three files and returned nil; q is now rewriting one of them; and p's
\* next invocation has found all three names and declared a hit while that
\* file was incomplete
C14_Witness ==
    \E p, q \in Procs :
        /\ p # q
        /\ lastEnsure # Nil
        /\ Get(lastEnsure).ret = "nil" /\ ~Get(lastEnsure).hit
        /\ Get(lastEnsure).found = {} /\ Get(lastEnsure).built = 1
        /\ Get(lastEnsure).wrote = Range(CacheFiles)
        /\ proc[q].ensured = 1 /\ proc[q].pc = "write"
        /\ ~proc[q].hit /\ proc[q].found = {}
        /\ proc[q].built = 1 /\ proc[q].art = "good"
        /\ proc[p].ensured = 2 /\ proc[p].pc = "ens_ret" /\ proc[p].hit
        /\ proc[p].built = 0
        /\ proc[p].torn = {CacheFiles[proc[q].n]}

(***************************************************************************)
(* outputLinuxKit: the temporary working directory of a converter.         *)
(* lk.fs is the file system: the paths that exist, a directory as          *)
(* <<parent, name>> and a file in it as <<parent, name, file>>.            *)
(***************************************************************************)
\* the names ioutil.TempDir can come up with in one parent directory
DirNames == 1..(MaxRuns + 1)

\* the parent of the working directory (MobyDir/tmp) and of the hyperkit
\* state directory (the system's temporary directory)
MobyTmp == "MobyDir/tmp"
SysTmp == "TMPDIR"

\* ioutil.TempDir(parent, ...): the directories it can create, each under a
\* name that does not exist yet
TempDirs(fs, parent) == {<<parent, d>> : d \in {n \in DirNames : <<parent, n>> \notin fs}}

\* an os.Remove in the place of os.RemoveAll: it leaves a directory that is
\* not empty
RemoveAll_RemoveEmpty(fs, dir) ==
    IF \E path \in fs : Len(path) = 3 /\ SubSeq(path, 1, 2) = dir THEN fs ELSE fs \ {dir}

\* os.RemoveAll(dir): the directory and everything in it are gone
RemoveAll(fs, dir) == {path \in fs : Len(path) < 2 \/ SubSeq(path, 1, 2) # dir}

\* the deferred calls, run at any return: os.RemoveAll(state) when the state
\* directory was made, then os.RemoveAll(tmp)
Deferred(fs, tmp, state) ==
    LET fs1 == IF state # Nil THEN RemoveAll(fs, Get(state)) ELSE fs
    IN  IF tmp # Nil THEN RemoveAll(fs1, Get(tmp)) ELSE fs1

LkIdle ==
    [pc |-> "idle", format |-> "", hyperkit |-> FALSE, tmp |-> Nil, state |-> Nil,
     fresh |-> TRUE, ret |-> "", calls |-> 0, fs |-> {}]

InitLinuxKit ==
    /\ lk = LkIdle
    /\ OCIIdle /\ OverrideIdle /\ TarIdle /\ FormatsIdle
    /\ SchemaIdle /\ BundleIdle /\ RunIdle

\* outputLinuxKit returns err ("nil" for a nil error) after its deferred
\* calls have run
LkReturn(err) ==
    lk' = [lk EXCEPT !.pc = "done", !.ret = err, !.fs = Deferred(lk.fs, lk.tmp, lk.state)]

\* output.go 467-468: a converter calls outputLinuxKit
OutputLinuxKitCall ==
    /\ lk.pc \in {"idle", "done"}
    /\ lk.calls < MaxRuns
    /\ \E format \in {"raw", "qcow2"}, hyperkit \in BOOLEAN :
          lk' = [LkIdle EXCEPT !.pc = "tempdir", !.format = format, !.hyperkit = hyperkit,
                               !.calls = lk.calls + 1, !.fs = lk.fs]
    /\ UNCHANGED notLinuxKit

\* output.go 470-474: ioutil.TempDir(MobyDir/tmp, "moby") and the defer
LkTempDir ==
    /\ lk.pc = "tempdir"
    /\ \/ \E dir \in TempDirs(lk.fs, MobyTmp) :
             lk' = [lk EXCEPT !.pc = "tardisk", !.tmp = Some(dir), !.fresh = dir \notin lk.fs,
                              !.fs = @ \cup {dir}]
       \/ LkReturn("TempDir error")
    /\ UNCHANGED notLinuxKit

\* output.go 476-493: tarInitrdKernel, os.Create of tmp/tardisk, io.Copy
\* and Close
LkTarDisk ==
    /\ lk.pc = "tardisk"
    /\ \/ LkReturn("tarInitrdKernel error")
       \/ LkReturn("Create error")
       \/ lk' = [lk EXCEPT !.pc = "done", !.ret = "write error",
                           !.fs = Deferred(lk.fs \cup {Append(Get(lk.tmp), "tardisk")},
                                           lk.tmp, lk.state)]
       \/ lk' = [lk EXCEPT !.pc = "remove", !.fs = @ \cup {Append(Get(lk.tmp), "tardisk")}]
    /\ UNCHANGED notLinuxKit

\* output.go 495-500: os.Remove of the output file and the os.Stat after it
LkRemoveOutput ==
    /\ lk.pc = "remove"
    /\ \/ lk' = [lk EXCEPT !.pc = "lookpath"]
       \/ LkReturn("Cannot remove existing file")
    /\ UNCHANGED notLinuxKit

\* output.go 501-504 and 506: exec.LookPath("linuxkit")
LkLookPath ==
    /\ lk.pc = "lookpath"
    /\ \/ lk' = [lk EXCEPT !.pc = IF lk.hyperkit /\ lk.format = "raw" THEN "state" ELSE "run"]
       \/ LkReturn("Cannot find linuxkit executable")
    /\ UNCHANGED notLinuxKit

\* output.go 507-512: ioutil.TempDir("", "s") and the defer
LkStateDir ==
    /\ lk.pc = "state"
    /\ \/ \E dir \in TempDirs(lk.fs, SysTmp) :
             lk' = [lk EXCEPT !.pc = "run", !.state = Some(dir), !.fs = @ \cup {dir}]
       \/ LkReturn("TempDir error")
    /\ UNCHANGED notLinuxKit

\* the file system once linuxkit has run: hyperkit leaves files in its
\* state directory
AfterRun ==
    IF lk.state # Nil THEN lk.fs \cup {Append(Get(lk.state), "hyperkit.pid")} ELSE lk.fs

\* output.go 514-524: cmd.Run() of linuxkit
LkRun ==
    /\ lk.pc = "run"
    /\ \E err \in {"nil", "converter error"} :
          lk' = [lk EXCEPT !.pc = "done", !.ret = err,
                           !.fs = Deferred(AfterRun, lk.tmp, lk.state)]
    /\ UNCHANGED notLinuxKit

\* the run of the tool is killed inside outputLinuxKit: no deferred call
\* runs and its directories stay
LkInterrupt ==
    /\ lk.pc \notin {"idle", "done"}
    /\ lk' = [LkIdle EXCEPT !.calls = lk.calls, !.fs = lk.fs]
    /\ UNCHANGED notLinuxKit

NextLinuxKit ==
    \/ OutputLinuxKitCall
    \/ LkTempDir
    \/ LkTarDisk
    \/ LkRemoveOutput
    \/ LkLookPath
    \/ LkStateDir
    \/ LkRun
    \/ LkInterrupt

SpecLinuxKit == InitLinuxKit /\ [][NextLinuxKit]_vars

\* nothing of the directory is left in the file system
Gone(dir) == \A path \in lk.fs : Len(path) < 2 \/ SubSeq(path, 1, 2) # dir

\* the ways outputLinuxKit returns once its working directory exists
LkReturnPaths ==
    { "nil", "tarInitrdKernel error", "Create error", "write error",
      "Cannot remove existing file", "Cannot find linuxkit executable",
      "TempDir error", "converter error" }

\* C15: the working directory an invocation of outputLinuxKit creates did
\* not exist before, and when the invocation has returned, by whichever
\* path (nil, the tar disk not written, the output file not removable, no
\* linuxkit executable, the converter failing), that directory and all in
\* it are gone, and so is the hyperkit state directory if one was made.
C15_TmpDirRemoved ==
    /\ lk.tmp # Nil => lk.fresh
    /\ (lk.pc = "done" /\ lk.tmp # Nil) =>
          /\ lk.ret \in LkReturnPaths
          /\ Gone(Get(lk.tmp))
          /\ lk.state # Nil => Gone(Get(lk.state))

\* the second invocation, with hyperkit, has returned the converter's
\* error; it had made both directories, under names an earlier, killed
\* invocation had not taken, and both are gone
C15_Witness ==
    /\ lk.pc = "done" /\ lk.ret = "converter error"
    /\ lk.calls = 2
    /\ lk.tmp = Some(<<MobyTmp, 2>>) /\ lk.state # Nil
    /\ lk.fs = {<<MobyTmp, 1>>, <<MobyTmp, 1, "tardisk">>}

(***************************************************************************)
(* Formats and the build cache, run by run (Spec): failures.               *)
(***************************************************************************)
\* C16: when the build that ensureLinuxkitImage runs on a miss has failed,
\* ensureLinuxkitImage writes none of the three cache files and returns an
\* error, and no later call declares a hit on files a failed build left.
C16_BuildFailureSurfaced ==
    \A p \in Procs :
        /\ proc[p].art = "truncated" =>
              /\ proc[p].wrote = {}
              /\ proc[p].pc = "ens_ret" => proc[p].eret # "nil"
        /\ (proc[p].pc = "ens_ret" /\ proc[p].hit) =>
              \A f \in Range(CacheFiles) : cache[f].want # <<>>

\* the formats of a list that have a prerequisite
WithPrereq(formats) == {k \in 1..Len(formats) : prereq(formats[k]) # ""}

\* C19: the converters Formats has invoked are the first formats of the
\* list, in the order of the list; none is invoked before every name of
\* the list was found in outFuns and every prerequisite was set up; a
\* result exists only once Formats has returned; Formats returns nil only
\* after every converter of the list ran and none failed, and when one
\* failed it returns that error with no later converter invoked.
C19_ConvertInOrderNoPartial ==
    \A p \in Procs :
        /\ IsPrefix(proc[p].outs, proc[p].formats)
        /\ Len(proc[p].outs) = proc[p].converted
        /\ proc[p].outs # <<>> =>
              /\ ~HasUnknown(proc[p].formats)
              /\ proc[p].ensured = Cardinality(WithPrereq(proc[p].formats))
              /\ proc[p].pc \in {"convert", "done"}
        /\ proc[p].pc = "convert" => Len(proc[p].outs) = proc[p].i - 1
        /\ proc[p].ret # "" => proc[p].pc = "done"
        /\ (proc[p].pc = "done" /\ proc[p].ret = "nil") => proc[p].outs = proc[p].formats
        /\ (proc[p].pc = "done" /\ proc[p].ret = "converter error") => proc[p].outs # <<>>

\* Formats was asked for raw and kernel+initrd; the list was validated and
\* the prerequisite of raw set up; the converter of raw failed, and Formats
\* has returned its error without invoking the converter of kernel+initrd
C19_Witness ==
    \E p \in Procs :
        /\ proc[p].pc = "done" /\ proc[p].ret = "converter error"
        /\ proc[p].formats = <<"raw", "kernel+initrd">>
        /\ proc[p].outs = <<"raw">>
        /\ proc[p].ensured = 1

(***************************************************************************)
(* dockerRunInput: run an image with input on its standard input and hand  *)
(* back what it wrote.  run.engine is the set of containers that exist;    *)
(* a container made with AutoRemove goes away when it exits.               *)
(***************************************************************************)
\* what is fed to the container, and what a container can write back
RunInputs == {"", "in"}
RunOutputs == {"", "out"}

RunIdle0 ==
    [pc |-> "idle", input |-> "", id |-> 0, log |-> <<>>, ret |-> Nil,
     calls |-> 0, made |-> 0, engine |-> {}]

InitRun ==
    /\ run = RunIdle0
    /\ OCIIdle /\ OverrideIdle /\ TarIdle /\ FormatsIdle
    /\ SchemaIdle /\ BundleIdle /\ LinuxKitIdle

\* dockerRunInput returns (out, err), err "nil" for a nil error, after the
\* call named in the log
RunReturn(call, out, err) ==
    run' = [run EXCEPT !.pc = "done", !.log = Append(@, call), !.ret = Some([out |-> out, err |-> err])]

\* cli.ContainerCreate went through: a new container exists
RunCreated(next) ==
    run' = [run EXCEPT !.pc = next, !.log = Append(@, "create:ok"), !.id = run.made + 1,
                       !.made = @ + 1, !.engine = @ \cup {run.made + 1}]

\* docker.go 22-23: dockerRunInput is called
DockerRunInputCall ==
    /\ run.pc \in {"idle", "done"}
    /\ run.calls < MaxRuns
    /\ \E input \in RunInputs :
          run' = [RunIdle0 EXCEPT !.pc = "client", !.input = input, !.calls = run.calls + 1,
                                  !.made = run.made, !.engine = run.engine]
    /\ UNCHANGED notRun

\* docker.go 25-28: dockerClient()
RunClient ==
    /\ run.pc = "client"
    /\ \/ run' = [run EXCEPT !.pc = "create"]
       \/ RunReturn("client:error", "", "could not initialize Docker API client")
    /\ UNCHANGED notRun

\* docker.go 30-42 and 59: the first ContainerCreate; an error that is not
\* "not found" is returned
RunCreate ==
    /\ run.pc = "create"
    /\ \/ RunCreated("attach")
       \/ run' = [run EXCEPT !.pc = "pull", !.log = Append(@, "create:not found")]
       \/ RunReturn("create:error", "", "create error")
    /\ UNCHANGED notRun

\* docker.go 43-45: dockerPull(image, false)
RunPull ==
    /\ run.pc = "pull"
    /\ \/ run' = [run EXCEPT !.pc = "create_retry", !.log = Append(@, "pull:ok")]
       \/ RunReturn("pull:error", "", "pull error")
    /\ UNCHANGED notRun

\* docker.go 46-59: the second ContainerCreate; its error is returned, and
\* when it went through line 59 returns all the same, with the nil error
RunCreateRetry ==
    /\ run.pc = "create_retry"
    /\ \/ run' = [run EXCEPT !.pc = "done", !.log = Append(@, "create:ok"),
                             !.id = run.made + 1, !.made = @ + 1,
                             !.engine = @ \cup {run.made + 1},
                             !.ret = Some([out |-> "", err |-> "nil"])]
       \/ RunReturn("create:error", "", "create error")
    /\ UNCHANGED notRun

\* docker.go 62-70: ContainerAttach
RunAttach ==
    /\ run.pc = "attach"
    /\ \/ run' = [run EXCEPT !.pc = "start", !.log = Append(@, "attach:ok")]
       \/ RunReturn("attach:error", "", "attach error")
    /\ UNCHANGED notRun

\* docker.go 72-74: ContainerStart
RunStart ==
    /\ run.pc = "start"
    /\ \/ run' = [run EXCEPT !.pc = "wait", !.log = Append(@, "start:ok")]
       \/ RunReturn("start:error", "", "start error")
    /\ UNCHANGED notRun

\* docker.go 76-82: the input is copied to the container and ContainerWait
\* returns when it has exited; AutoRemove then takes the container away
RunWait ==
    /\ run.pc = "wait"
    /\ \/ run' = [run EXCEPT !.pc = "read", !.log = Append(@, "wait:ok"),
                             !.engine = @ \ {run.id}]
       \/ RunReturn("copy:error", "", "copy error")
       \/ RunReturn("wait:error", "", "wait error")
    /\ UNCHANGED notRun

\* docker.go 84-89: ioutil.ReadAll of what the container wrote
RunReadAll ==
    /\ run.pc = "read"
    /\ \/ \E out \in RunOutputs : RunReturn("read:ok", out, "nil")
       \/ RunReturn("read:error", "", "read error")
    /\ UNCHANGED notRun

NextRun ==
    \/ DockerRunInputCall
    \/ RunClient
    \/ RunCreate
    \/ RunPull
    \/ RunCreateRetry
    \/ RunAttach
    \/ RunStart
    \/ RunWait
    \/ RunReadAll

SpecRun == InitRun /\ [][NextRun]_vars

\* C20: when dockerRunInput has returned after a first creation that
\* failed with not found, a pull that went through and a second creation
\* that went through, it has attached to, started and waited for the
\* container it created; it returns without having attached only when the
\* client, the first creation (for another reason), the pull or the second
\* creation failed.
C20_RetryThenRun ==
    run.pc = "done" =>
        /\ IsPrefix(<<"create:not found", "pull:ok", "create:ok">>, run.log) =>
              /\ Len(run.log) >= 6
              /\ SubSeq(run.log, 4, 6) = <<"attach:ok", "start:ok", "wait:ok">>
              /\ run.id \notin run.engine
        /\ (\A i \in 1..Len(run.log) : run.log[i] \notin {"attach:ok", "attach:error"}) =>
              run.log[Len(run.log)] \in {"client:error", "create:error", "pull:error"}

====
